---- MODULE Spec2Model ----
(***************************************************************************)
(* PhoneNumberParser (src/index.js): a table countryValidations from       *)
(* country code to RegExp on top of libphonenumber-js.                     *)
(*                                                                         *)
(* Strings are sequences of one-character strings.  RegExp objects are     *)
(* named by an identifier; their mutable lastIndex lives in the variable   *)
(* lastIndex, their source and flags in RegExps.                           *)
(***************************************************************************)
EXTENDS Integers, Sequences, FiniteSets, TLC

(* ----------------------------- bounds --------------------------------- *)

\* longest national (subscriber) number among the raw inputs
MaxNational == 11

(* ----------------------------- strings -------------------------------- *)

DigitChars == {"0", "1", "2", "3", "4", "5", "6", "7", "8", "9"}

Cycle == <<"6", "7", "1", "2", "3", "4", "5", "6", "7", "8">>

\* n digits: the area code followed by 6 7 1 2 3 4 5 6 7 8 6 7 ...
Subscriber(area, n) ==
    [i \in 1..n |-> IF i <= Len(area) THEN area[i]
                    ELSE Cycle[((i - Len(area) - 1) % Len(Cycle)) + 1]]

StartsWith(s, pre) ==
    /\ Len(pre) <= Len(s)
    /\ SubSeq(s, 1, Len(pre)) = pre

Drop(s, n) == SubSeq(s, n + 1, Len(s))

(* ------------------- libphonenumber-js (external) --------------------- *)

\* The countries the library knows; 'UK' is not one of them (it is 'GB').
Metadata ==
    [US |-> [cc |-> <<"1">>,           lengths |-> {10},    trunk |-> <<>>],
     CA |-> [cc |-> <<"1">>,           lengths |-> {10},    trunk |-> <<>>],
     GB |-> [cc |-> <<"4", "4">>,      lengths |-> {10},    trunk |-> <<"0">>],
     UA |-> [cc |-> <<"3", "8", "0">>, lengths |-> {9},     trunk |-> <<"0">>],
     FR |-> [cc |-> <<"3", "3">>,      lengths |-> {9},     trunk |-> <<"0">>],
     DE |-> [cc |-> <<"4", "9">>,      lengths |-> 9..11,   trunk |-> <<"0">>]]

CallingCodes == {Metadata[k].cc : k \in DOMAIN Metadata}

\* the region of a national number under a calling code (NANP: by area code)
RegionOf(cc, national) ==
    IF cc = <<"1">>
    THEN IF StartsWith(national, <<"5", "1", "4">>) THEN "CA" ELSE "US"
    ELSE CHOOSE k \in DOMAIN Metadata : Metadata[k].cc = cc

Undefined == [ok |-> FALSE, country |-> "", cc |-> <<>>, national |-> <<>>]

\* parsePhoneNumberFromString of the library, as an algorithm
parsePhoneNumber(text, defaultCountry) ==
    IF \E i \in 1..Len(text) : text[i] \notin DigitChars \cup {"+"}
    THEN Undefined
    ELSE IF text # <<>> /\ Head(text) = "+"
    THEN LET ccs == {cc \in CallingCodes : StartsWith(Tail(text), cc)}
         IN  IF ccs = {} THEN Undefined
             ELSE LET cc == CHOOSE c \in ccs : TRUE
                      national == Drop(Tail(text), Len(cc))
                  IN  [ok |-> TRUE, country |-> RegionOf(cc, national),
                       cc |-> cc, national |-> national]
    ELSE IF defaultCountry \notin DOMAIN Metadata
    THEN Undefined
    ELSE LET m == Metadata[defaultCountry]
             national == IF m.trunk # <<>> /\ StartsWith(text, m.trunk)
                         THEN Drop(text, Len(m.trunk)) ELSE text
         IN  [ok |-> TRUE, country |-> RegionOf(m.cc, national),
              cc |-> m.cc, national |-> national]

isValid(parsedNumber) ==
    /\ Len(parsedNumber.national) \in Metadata[parsedNumber.country].lengths
    /\ Head(parsedNumber.national) \notin {"0", "1"}

formatE164(parsedNumber) == <<"+">> \o parsedNumber.cc \o parsedNumber.national

(* --------------------------- RegExp objects --------------------------- *)

\* source ^? literal \d{min,max} $?  with the g flag or without
RegExps ==
    [reUS    |-> [caret |-> TRUE,  literal |-> <<"+", "1">>,
                  min |-> 10, max |-> 10, dollar |-> TRUE,  global |-> FALSE],
     reUK    |-> [caret |-> TRUE,  literal |-> <<"+", "4", "4">>,
                  min |-> 10, max |-> 10, dollar |-> TRUE,  global |-> FALSE],
     reUA    |-> [caret |-> TRUE,  literal |-> <<"+", "3", "8", "0">>,
                  min |-> 9,  max |-> 9,  dollar |-> TRUE,  global |-> FALSE],
     reFR    |-> [caret |-> TRUE,  literal |-> <<"+", "3", "3">>,
                  min |-> 9,  max |-> 9,  dollar |-> TRUE,  global |-> FALSE],
     reDE    |-> [caret |-> TRUE,  literal |-> <<"+", "4", "9">>,
                  min |-> 10, max |-> 11, dollar |-> TRUE,  global |-> FALSE],
     reCA    |-> [caret |-> TRUE,  literal |-> <<"+", "1">>,
                  min |-> 10, max |-> 10, dollar |-> TRUE,  global |-> FALSE],
     reFRg   |-> [caret |-> TRUE,  literal |-> <<"+", "3", "3">>,
                  min |-> 9,  max |-> 9,  dollar |-> TRUE,  global |-> TRUE],
     reLoose |-> [caret |-> FALSE, literal |-> <<"+", "3", "3">>,
                  min |-> 3,  max |-> 3,  dollar |-> FALSE, global |-> FALSE]]

RegExpIds == DOMAIN RegExps

\* number of consecutive digits of s after 0-based position j
DigitRun(s, j) ==
    LET stop == {k \in j + 1..Len(s) : s[k] \notin DigitChars}
    IN  IF stop = {} THEN Len(s) - j
        ELSE (CHOOSE k \in stop : \A l \in stop : k <= l) - j - 1

Max(S) == CHOOSE x \in S : \A y \in S : y <= x
Min(S) == CHOOSE x \in S : \A y \in S : x <= y

\* end index of the match of r that starts at 0-based index i, or -1
MatchAt(r, s, i) ==
    IF r.caret /\ i # 0 THEN -1
    ELSE IF ~StartsWith(Drop(s, i), r.literal) THEN -1
    ELSE LET j    == i + Len(r.literal)
             run  == DigitRun(s, j)
             reps == {k \in r.min..r.max :
                        /\ k <= run
                        /\ r.dollar => j + k = Len(s)}
         IN  IF reps = {} THEN -1 ELSE j + Max(reps)

\* RegExp.prototype.test(s) on object id with the lastIndex values li
test(id, s, li) ==
    LET r     == RegExps[id]
        start == IF r.global THEN li[id] ELSE 0
        hits  == {i \in start..Len(s) : MatchAt(r, s, i) # -1}
    IN  IF hits = {}
        THEN [result |-> FALSE,
              li |-> IF r.global THEN [li EXCEPT ![id] = 0] ELSE li]
        ELSE [result |-> TRUE,
              li |-> IF r.global
                     THEN [li EXCEPT ![id] = MatchAt(r, s, Min(hits))]
                     ELSE li]

(* ------------------------------ inputs -------------------------------- *)

Lengths == 9..MaxNational

International(cc, area, n) == <<"+">> \o cc \o Subscriber(area, n)

\* '+1212...', '+1514...', '+33671234567...', '+49671234567...' and
\* '0671234567...' with 9..MaxNational national digits, '+999671234567',
\* 'abcdefgh'
RawInputs ==
    {International(<<"1">>, <<"2", "1", "2">>, n) : n \in Lengths}
    \cup {International(<<"1">>, <<"5", "1", "4">>, n) : n \in Lengths}
    \cup {International(<<"3", "3">>, <<>>, n) : n \in Lengths}
    \cup {International(<<"4", "9">>, <<>>, n) : n \in Lengths}
    \cup {<<"0">> \o Subscriber(<<>>, n) : n \in Lengths}
    \cup {International(<<"9", "9", "9">>, <<>>, 9)}
    \cup {<<"a", "b", "c", "d", "e", "f", "g", "h">>}

\* country codes passed as countryCode to parse and validate
Hints == {"US", "UA", "FR", "CA"}

\* The library is a pure function: its results over the inputs, computed once.
ParsedNumbers ==
    [text \in RawInputs, defaultCountry \in Hints |->
       parsePhoneNumber(text, defaultCountry)]

parsePhoneNumberFromString(text, defaultCountry) ==
    ParsedNumbers[text, defaultCountry]

\* arguments of addCountryValidation and of an assignment to a listing
AddCalls == {<<"CA", "reCA">>, <<"FR", "reFRg">>, <<"FR", "reLoose">>}

\* arguments of removeCountryValidation and of a delete on a listing
RemoveCodes == {"FR", "DE", "CA"}

(* ------------------------------- state -------------------------------- *)

VARIABLES
    countryValidations,  \* this.countryValidations: country code -> RegExp id
    lastIndex,           \* lastIndex of every RegExp object
    held,                \* a caller holds the object listSupportedCountries returned
    op,                  \* the last operation: its arguments and its outcome
    repeat               \* the last operation repeated the one before it

vars == <<countryValidations, lastIndex, held, op, repeat>>

defaultCountry == "US"

NoString == <<>>

Call(name, phoneNumber, countryCode, regex, kind, value, parsed) ==
    [name |-> name, phoneNumber |-> phoneNumber, countryCode |-> countryCode,
     regex |-> regex, kind |-> kind, value |-> value, parsed |-> parsed]

SameCall(a, b) ==
    /\ a.name = b.name
    /\ a.phoneNumber = b.phoneNumber
    /\ a.countryCode = b.countryCode
    /\ a.regex = b.regex

(* ----------------------------- the class ------------------------------ *)

constructor ==
    [US |-> "reUS", UK |-> "reUK", UA |-> "reUA", FR |-> "reFR", DE |-> "reDE"]

\* this.countryValidations[c] is truthy: c is a key (every value is a RegExp)
Defined(cv, c) == c \in DOMAIN cv

\* parse failing closed when the detected country has no entry
parse_failClosed(phoneNumber, countryCode, cv, li) ==
    LET parsedNumber == parsePhoneNumberFromString(phoneNumber, countryCode)
    IN  IF ~parsedNumber.ok \/ ~isValid(parsedNumber)
        THEN [kind |-> "null", value |-> NoString, li |-> li]
        ELSE LET formattedNumber == formatE164(parsedNumber)
                 detectedCountry == parsedNumber.country
             IN  IF Defined(cv, detectedCountry)
                 THEN LET t == test(cv[detectedCountry], formattedNumber, li)
                      IN  IF ~t.result
                          THEN [kind |-> "null", value |-> NoString, li |-> t.li]
                          ELSE [kind |-> "string", value |-> formattedNumber,
                                li |-> t.li]
                 ELSE [kind |-> "null", value |-> NoString, li |-> li]

parse(phoneNumber, countryCode, cv, li) ==
    LET parsedNumber == parsePhoneNumberFromString(phoneNumber, countryCode)
    IN  IF ~parsedNumber.ok \/ ~isValid(parsedNumber)
        THEN [kind |-> "null", value |-> NoString, li |-> li]
        ELSE LET formattedNumber == formatE164(parsedNumber)
                 detectedCountry == parsedNumber.country
             IN  IF Defined(cv, detectedCountry)
                 THEN LET t == test(cv[detectedCountry], formattedNumber, li)
                      IN  IF ~t.result
                          THEN [kind |-> "null", value |-> NoString, li |-> t.li]
                          ELSE [kind |-> "string", value |-> formattedNumber,
                                li |-> t.li]
                 ELSE [kind |-> "string", value |-> formattedNumber, li |-> li]

\* validate without the guard on countryCode
validate_noGuard(phoneNumber, countryCode, cv, li) ==
    LET parsedNumber == parse(phoneNumber, countryCode, cv, li)
    IN  [kind |-> IF parsedNumber.kind # "null" THEN "true" ELSE "false",
         li |-> parsedNumber.li, parsed |-> TRUE]

\* validate calling this.parse(phoneNumber), without countryCode
validate_defaultHint(phoneNumber, countryCode, cv, li) ==
    IF ~Defined(cv, countryCode)
    THEN [kind |-> "throw", li |-> li, parsed |-> FALSE]
    ELSE LET parsedNumber == parse(phoneNumber, defaultCountry, cv, li)
         IN  [kind |-> IF parsedNumber.kind # "null" THEN "true" ELSE "false",
              li |-> parsedNumber.li, parsed |-> TRUE]

validate(phoneNumber, countryCode, cv, li) ==
    IF ~Defined(cv, countryCode)
    THEN [kind |-> "throw", li |-> li, parsed |-> FALSE]
    ELSE LET parsedNumber == parse(phoneNumber, countryCode, cv, li)
         IN  [kind |-> IF parsedNumber.kind # "null" THEN "true" ELSE "false",
              li |-> parsedNumber.li, parsed |-> TRUE]

\* addCountryValidation that keeps an entry already there
addCountryValidation_keepExisting(cv, countryCode, regex) ==
    [kind |-> "void",
     cv |-> [k \in DOMAIN cv \cup {countryCode} |->
               IF k \in DOMAIN cv THEN cv[k] ELSE regex]]

\* addCountryValidation that drops an entry already there
addCountryValidation_toggle(cv, countryCode, regex) ==
    [kind |-> "void",
     cv |-> IF countryCode \in DOMAIN cv
            THEN [k \in DOMAIN cv \ {countryCode} |-> cv[k]]
            ELSE [k \in DOMAIN cv \cup {countryCode} |->
                    IF k = countryCode THEN regex ELSE cv[k]]]

addCountryValidation(cv, countryCode, regex) ==
    [kind |-> "void",
     cv |-> [k \in DOMAIN cv \cup {countryCode} |->
               IF k = countryCode THEN regex ELSE cv[k]]]

\* removeCountryValidation that rejects an unknown country
removeCountryValidation_strict(cv, countryCode) ==
    IF countryCode \notin DOMAIN cv
    THEN [kind |-> "throw", cv |-> cv]
    ELSE [kind |-> "void", cv |-> [k \in DOMAIN cv \ {countryCode} |-> cv[k]]]

removeCountryValidation(cv, countryCode) ==
    [kind |-> "void",
     cv |-> [k \in DOMAIN cv \ {countryCode} |-> cv[k]]]

listSupportedCountries(cv) == cv

(* ------------------------------ actions ------------------------------- *)

Init ==
    /\ countryValidations = constructor
    /\ lastIndex = [id \in RegExpIds |-> 0]
    /\ held = FALSE
    /\ op = Call("new", NoString, "", "", "void", NoString, FALSE)
    /\ repeat = FALSE

Record(call) ==
    /\ op' = call
    /\ repeat' = SameCall(op, call)

Parse(phoneNumber, countryCode) ==
    LET r == parse(phoneNumber, countryCode, countryValidations, lastIndex)
    IN  /\ lastIndex' = r.li
        /\ Record(Call("parse", phoneNumber, countryCode, "", r.kind, r.value, TRUE))
        /\ UNCHANGED <<countryValidations, held>>

\* parse(phoneNumber) with countryCode = this.defaultCountry
ParseDefault(phoneNumber) == Parse(phoneNumber, defaultCountry)

Validate(phoneNumber, countryCode) ==
    LET r == validate(phoneNumber, countryCode, countryValidations, lastIndex)
    IN  /\ lastIndex' = r.li
        /\ Record(Call("validate", phoneNumber, countryCode, "", r.kind, NoString,
                       r.parsed))
        /\ UNCHANGED <<countryValidations, held>>

AddCountryValidation(countryCode, regex) ==
    LET r == addCountryValidation(countryValidations, countryCode, regex)
    IN  /\ countryValidations' = r.cv
        /\ Record(Call("addCountryValidation", NoString, countryCode, regex, r.kind,
                       NoString, FALSE))
        /\ UNCHANGED <<lastIndex, held>>

RemoveCountryValidation(countryCode) ==
    LET r == removeCountryValidation(countryValidations, countryCode)
    IN  /\ countryValidations' = r.cv
        /\ Record(Call("removeCountryValidation", NoString, countryCode, "", r.kind,
                       NoString, FALSE))
        /\ UNCHANGED <<lastIndex, held>>

\* the caller receives this.countryValidations itself
ListSupportedCountries ==
    /\ held' = TRUE
    /\ Record(Call("listSupportedCountries", NoString, "", "", "object", NoString,
                   FALSE))
    /\ UNCHANGED <<countryValidations, lastIndex>>

\* the caller assigns to a key of the object it was returned
ListingAssign(countryCode, regex) ==
    /\ held
    /\ countryValidations' =
         [k \in DOMAIN listSupportedCountries(countryValidations) \cup {countryCode}
            |-> IF k = countryCode THEN regex ELSE countryValidations[k]]
    /\ Record(Call("listing[c] = regex", NoString, countryCode, regex, "void",
                   NoString, FALSE))
    /\ UNCHANGED <<lastIndex, held>>

\* the caller deletes a key of the object it was returned
ListingDelete(countryCode) ==
    /\ held
    /\ countryValidations' =
         [k \in DOMAIN listSupportedCountries(countryValidations) \ {countryCode}
            |-> countryValidations[k]]
    /\ Record(Call("delete listing[c]", NoString, countryCode, "", "void",
                   NoString, FALSE))
    /\ UNCHANGED <<lastIndex, held>>

Next ==
    \/ \E x \in RawInputs, c \in Hints : Parse(x, c)
    \/ \E x \in RawInputs : ParseDefault(x)
    \/ \E x \in RawInputs, c \in Hints : Validate(x, c)
    \/ \E a \in AddCalls : AddCountryValidation(a[1], a[2])
    \/ \E c \in RemoveCodes : RemoveCountryValidation(c)
    \/ ListSupportedCountries
    \/ \E a \in AddCalls : ListingAssign(a[1], a[2])
    \/ \E c \in RemoveCodes : ListingDelete(c)

Spec == Init /\ [][Next]_vars

(* ------------------------------ claims -------------------------------- *)

\* the whole of s is an instance of the pattern of RegExp id
FullMatch(id, s) ==
    LET r == RegExps[id]
    IN  /\ StartsWith(s, r.literal)
        /\ Len(s) - Len(r.literal) \in r.min..r.max
        /\ \A i \in Len(r.literal) + 1..Len(s) : s[i] \in DigitChars

\* the pattern of RegExp id matches somewhere in s
Matches(id, s) == \E i \in 0..Len(s) : MatchAt(RegExps[id], s, i) # -1

LibraryResult == parsePhoneNumberFromString(op.phoneNumber, op.countryCode)

ReturnedString(s) == op.kind = "string" /\ op.value = s

OthersKept(old, new, c) ==
    \A k \in (DOMAIN old \cup DOMAIN new) \ {c} :
        /\ k \in DOMAIN old
        /\ k \in DOMAIN new
        /\ new[k] = old[k]

\* C1: parse returns absent when the library reports the input unparseable
\* or invalid; when the input is valid and the detected country has an entry,
\* parse returns the E.164 form if the whole of it matches the entry's
\* pattern and absent otherwise.
C1_ParseContract ==
    op.name = "parse" =>
        LET pn == LibraryResult
        IN  IF ~pn.ok \/ ~isValid(pn)
            THEN op.kind = "null"
            ELSE pn.country \in DOMAIN countryValidations =>
                    IF FullMatch(countryValidations[pn.country], formatE164(pn))
                    THEN ReturnedString(formatE164(pn))
                    ELSE op.kind = "null"

\* C2: validate with a country code that has no entry throws, without
\* consulting the library and without changing the table (or any RegExp).
C2_ValidateThrows ==
    [][(op'.name = "validate" /\ op'.countryCode \notin DOMAIN countryValidations)
         => /\ op'.kind = "throw"
            /\ ~op'.parsed
            /\ countryValidations' = countryValidations
            /\ lastIndex' = lastIndex]_vars

C2_Witness ==
    /\ op.name = "validate"
    /\ op.countryCode = "FR"
    /\ op.phoneNumber = International(<<"3", "3">>, <<>>, 9)
    /\ "FR" \notin DOMAIN countryValidations
    /\ op.kind = "throw"

\* C3: for a country code with an entry, validate never throws and returns
\* true exactly when parse with the same arguments, on the same table,
\* returns a string.
C3_ValidateIffParse ==
    [][(op'.name = "validate" /\ op'.countryCode \in DOMAIN countryValidations)
         => /\ op'.kind \in {"true", "false"}
            /\ op'.kind = "true" <=>
                 parse(op'.phoneNumber, op'.countryCode, countryValidations,
                       lastIndex).kind = "string"]_vars

C3_Witness ==
    /\ op.name = "validate"
    /\ op.countryCode = "UA"
    /\ op.phoneNumber = <<"0">> \o Subscriber(<<>>, 9)
    /\ op.kind = "true"

\* C4: when validate(x, c) returns true, the E.164 form of x matches the
\* pattern registered for c.
C4_ValidForGivenCountry ==
    (op.name = "validate" /\ op.kind = "true") =>
        /\ op.countryCode \in DOMAIN countryValidations
        /\ Matches(countryValidations[op.countryCode], formatE164(LibraryResult))

\* C5: the table changes only through addCountryValidation and
\* removeCountryValidation, never through what listSupportedCountries returned.
C5_ListingIsCopy ==
    [][countryValidations' # countryValidations
         => op'.name \in {"addCountryValidation", "removeCountryValidation"}]_vars

\* C6: after addCountryValidation(c, p) the listing maps c to p and every
\* other key is as before; after removeCountryValidation(c) the listing has
\* no key c and every other key is as before.
C6_RoundTrip ==
    [][/\ op'.name = "addCountryValidation" =>
            /\ op'.countryCode \in DOMAIN listSupportedCountries(countryValidations')
            /\ listSupportedCountries(countryValidations')[op'.countryCode]
                 = op'.regex
            /\ OthersKept(countryValidations,
                          listSupportedCountries(countryValidations'),
                          op'.countryCode)
       /\ op'.name = "removeCountryValidation" =>
            /\ op'.countryCode
                 \notin DOMAIN listSupportedCountries(countryValidations')
            /\ OthersKept(countryValidations,
                          listSupportedCountries(countryValidations'),
                          op'.countryCode)]_vars

\* an entry replaced by addCountryValidation, the other defaults in place
C6_Witness ==
    /\ op.name = "addCountryValidation"
    /\ op.countryCode = "FR"
    /\ countryValidations["FR"] = op.regex
    /\ op.regex # constructor["FR"]
    /\ \A k \in DOMAIN constructor \ {"FR"} :
          k \in DOMAIN countryValidations /\ countryValidations[k] = constructor[k]

\* C7: addCountryValidation(c, p) right after addCountryValidation(c, p)
\* leaves the table as the first call left it.
C7_AddIdempotent ==
    [][(op.name = "addCountryValidation" /\ op'.name = "addCountryValidation"
          /\ SameCall(op, op'))
         => /\ countryValidations' = countryValidations
            /\ op'.kind = op.kind]_vars

C7_Witness ==
    /\ op.name = "addCountryValidation"
    /\ repeat
    /\ op.countryCode = "CA"
    /\ countryValidations["CA"] = "reCA"

\* C8: removeCountryValidation never throws; without an entry for c it
\* leaves the table as it is, with one it deletes that entry only.
C8_RemoveNoError ==
    [][op'.name = "removeCountryValidation" =>
         /\ op'.kind = "void"
         /\ op'.countryCode \notin DOMAIN countryValidations
              => countryValidations' = countryValidations
         /\ op'.countryCode \in DOMAIN countryValidations
              => /\ DOMAIN countryValidations'
                      = DOMAIN countryValidations \ {op'.countryCode}
                 /\ \A k \in DOMAIN countryValidations' :
                        countryValidations'[k] = countryValidations[k]]_vars

\* a second removal of the same country
C8_Witness ==
    /\ op.name = "removeCountryValidation"
    /\ repeat
    /\ op.countryCode = "DE"
    /\ op.kind = "void"
    /\ "DE" \notin DOMAIN countryValidations

\* C9: when the library reports the input valid and the detected country has
\* no entry, parse returns the E.164 form.
C9_PermissiveFallback ==
    op.name = "parse" =>
        LET pn == LibraryResult
        IN  (pn.ok /\ isValid(pn) /\ pn.country \notin DOMAIN countryValidations)
               => ReturnedString(formatE164(pn))

\* a number the default pattern of DE rejects, returned once DE is removed
C9_Witness ==
    /\ op.name = "parse"
    /\ LibraryResult.ok
    /\ LibraryResult.country = "DE"
    /\ "DE" \notin DOMAIN countryValidations
    /\ ~Matches(constructor["DE"], formatE164(LibraryResult))
    /\ ReturnedString(formatE164(LibraryResult))

\* C10: parse (or validate) called again with the same arguments, with no
\* other operation between the two calls, returns what it returned before.
C10_Pure ==
    [][(op.name \in {"parse", "validate"} /\ SameCall(op, op'))
         => (op'.kind = op.kind /\ op'.value = op.value)]_vars

====
